---- MODULE Spec2Model ----
(***************************************************************************)
(* A model of compas_cem's plane goal (optimization/goals/plane.py), its   *)
(* objective wrapper (optimization/objective_func.py) and its diagram base *)
(* class (diagrams/diagram.py).                                            *)
(*                                                                         *)
(* Numbers.  Python floats are modelled as exact rationals <<num, den>>    *)
(* in lowest terms with den > 0, so rounding is not modelled.  Loads are   *)
(* integers counted in units of 1e-6, the default min_force.               *)
(***************************************************************************)
EXTENDS Integers, Sequences, FiniteSets, TLC

\* ---------------------------------------------------------------- bounds
\* Node coordinates of a form range over 0..MaxCoord.
MaxCoord == 1
\* Parameter vectors x range over 0..MaxX.
MaxX == 1
\* Objective values and gradient entries range over 0..MaxVal.
MaxVal == 2
\* At most MaxWrites writes are made to the diagrams.
MaxWrites == 4

\* ------------------------------------------------------------- rationals
Abs(n) == IF n < 0 THEN 0 - n ELSE n

RECURSIVE GCD(_, _)
GCD(a, b) == IF b = 0 THEN a ELSE GCD(b, a % b)

\* n/d in lowest terms, d # 0.
Q(n, d) ==
    LET g == GCD(Abs(n), Abs(d))
        s == IF d < 0 THEN 0 - 1 ELSE 1
    IN  <<(s * n) \div g, (s * d) \div g>>

R(n) == <<n, 1>>
QAdd(a, b) == Q(a[1] * b[2] + b[1] * a[2], a[2] * b[2])
QSub(a, b) == Q(a[1] * b[2] - b[1] * a[2], a[2] * b[2])
QMul(a, b) == Q(a[1] * b[1], a[2] * b[2])
QDiv(a, b) == Q(a[1] * b[2], a[2] * b[1])
QIsZero(a) == a[1] = 0
QPos(a) == a[1] > 0

\* A point or vector is a sequence of rationals; P3 builds one from integers.
P3(x, y, z) == <<R(x), R(y), R(z)>>
Dot3(u, v) == QAdd(QAdd(QMul(u[1], v[1]), QMul(u[2], v[2])), QMul(u[3], v[3]))
Sub3(u, v) == <<QSub(u[1], v[1]), QSub(u[2], v[2]), QSub(u[3], v[3])>>
Cross3(u, v) ==
    <<QSub(QMul(u[2], v[3]), QMul(u[3], v[2])),
      QSub(QMul(u[3], v[1]), QMul(u[1], v[3])),
      QSub(QMul(u[1], v[2]), QMul(u[2], v[1]))>>
ZeroVec == P3(0, 0, 0)

\* ------------------------------------------------------------- variables
VARIABLES
    goal,        \* the PlaneGoal the caller holds: <<>> or <<[_key, _target]>>
    registered,  \* whether the goal was handed to optimizer.add_goal
    data,        \* the current form's data: [node_xyz |-> key -> point]
    ret,         \* what the last call on the goal returned or raised
    x_func,      \* the value callable handed to the objective: x -> f(x)
    grad_func,   \* the gradient callable: x -> the gradient it writes
    last,        \* the last call of objective_function_numpy, in and out
    history,     \* every <<x, value returned>> of the calls so far
    diagram,     \* the Diagram instances: instance name -> its fields
    heap,        \* the dict objects instances refer to: address -> dict
    writes,      \* how many writes were made, and
    writer,      \* the instance the last write was made to
    overridden,  \* the instances a default of whose schema the caller overrode
    shown        \* what the last query of a diagram returned

goalVars == <<goal, registered, data, ret>>
objVars == <<x_func, grad_func, last, history>>
diagVars == <<diagram, heap, writes, writer, overridden, shown>>
vars == <<goalVars, objVars, diagVars>>

\* ============================================================ plane goal
\* Python's None as a node key.
NoneKey == 0 - 1
\* Python's None as a plane.
NonePlane == <<>>

\* Mutant: the z difference is left out of the sum.
distance_point_point_sqrd_NoZ(a, b) ==
    LET d == Sub3(a, b) IN QAdd(QMul(d[1], d[1]), QMul(d[2], d[2]))

\* compas.geometry.distance_point_point_sqrd: the sum of squared differences.
distance_point_point_sqrd(a, b) ==
    LET d == Sub3(a, b) IN Dot3(d, d)

\* What a call returns: its status ("ok" or the exception raised), and the
\* float or the point it returns.
Returned(status, value, point) ==
    [status |-> status, value |-> value, point |-> point]
Raised(exc) == Returned(exc, R(0), <<>>)

\* compas.geometry.closest_point_on_plane(point, plane):
\*     base, normal = plane                      (None: TypeError)
\*     x, y, z = base                            (not 3 long: ValueError)
\*     a, b, c = normalize_vector(normal)        (a zero vector stays zero;
\*                                                under 3 long: IndexError)
\*     d = a*x + b*y + c*z
\*     k = (a*x1 + b*y1 + c*z1 - d) / (a**2 + b**2 + c**2)
\*                                               (zero normal: ZeroDivisionError)
\*     return [x1 - k*a, y1 - k*b, z1 - k*c]
\* In exact arithmetic k*(a, b, c) is (n.(p - base) / n.n) * n.
closest_point_on_plane(point, plane) ==
    IF plane = NonePlane THEN Raised("TypeError")
    ELSE LET base == plane[1]
             normal == plane[2]
         IN  IF Len(base) # 3 THEN Raised("ValueError")
             ELSE IF Len(normal) < 3 THEN Raised("IndexError")
             ELSE IF QIsZero(Dot3(normal, normal)) THEN Raised("ZeroDivisionError")
             ELSE LET k == QDiv(Dot3(normal, Sub3(point, base)), Dot3(normal, normal))
                  IN  Returned("ok", R(0),
                               <<QSub(point[1], QMul(k, normal[1])),
                                 QSub(point[2], QMul(k, normal[2])),
                                 QSub(point[3], QMul(k, normal[3]))>>)

\* A method call yields what it returns, and the goal and the form data as
\* the call leaves them.
Outcome(r, self, d) == [ret |-> r, self |-> self, data |-> d]

\* Mutant: the constructor validates its arguments and rejects a missing
\* node key or a missing plane.
PlaneGoal__init__Eager(node, plane) ==
    [ret |-> IF node = 0 - 1 \/ plane = <<>>
             THEN Returned("GoalDefinitionError", R(0), <<>>)
             ELSE Returned("ok", R(0), <<>>),
     self |-> [_key |-> node, _target |-> plane]]

\* PlaneGoal(node=None, plane=None): the node key and the plane are handed to
\* the base constructor as given, which keeps them (key() and _target read
\* them back); nothing is checked, and no form is among the arguments.
PlaneGoal__init__(node, plane) ==
    [ret |-> Returned("ok", R(0), <<>>), self |-> [_key |-> node, _target |-> plane]]

\* PlaneGoal.reference(data): data["node_xyz"][self.key()].
PlaneGoal_reference(self, d) ==
    IF self._key \in DOMAIN d.node_xyz
    THEN Outcome(Returned("ok", R(0), d.node_xyz[self._key]), self, d)
    ELSE Outcome(Raised("KeyError"), self, d)

\* Mutant: target() projects in place, writing the projected point over the
\* goal's node in the form data.
PlaneGoal_target_InPlace(self, point, d) ==
    LET r == closest_point_on_plane(point, self._target)
    IN  Outcome(r, self,
                IF r.status = "ok" /\ self._key \in DOMAIN d.node_xyz
                THEN [d EXCEPT !.node_xyz[self._key] = r.point]
                ELSE d)

\* PlaneGoal.target(point): closest_point_on_plane(point, self._target).
PlaneGoal_target(self, point, d) ==
    Outcome(closest_point_on_plane(point, self._target), self, d)

\* Mutant: the distance is measured to the plane's base point, not to the
\* projection.
PlaneGoal_error_ToBase(self, d) ==
    LET a == PlaneGoal_reference(self, d)
    IN  IF a.ret.status # "ok" THEN a
        ELSE LET b == PlaneGoal_target(a.self, a.ret.point, a.data)
             IN  IF b.ret.status # "ok" THEN b
                 ELSE Outcome(Returned("ok",
                                       distance_point_point_sqrd(a.ret.point, self._target[1]),
                                       <<>>),
                              b.self, b.data)

\* PlaneGoal.error(data).
PlaneGoal_error(self, d) ==
    LET a == PlaneGoal_reference(self, d)
    IN  IF a.ret.status # "ok" THEN a
        ELSE LET b == PlaneGoal_target(a.self, a.ret.point, a.data)
             IN  IF b.ret.status # "ok" THEN b
                 ELSE Outcome(Returned("ok",
                                       distance_point_point_sqrd(a.ret.point, b.ret.point),
                                       <<>>),
                              b.self, b.data)

\* ------------------------------------------------------- inputs (goal)
Coords == 0 .. MaxCoord
Points == {P3(x, y, z) : x \in Coords, y \in Coords, z \in Coords}

\* Forms: node 0 is always there, node 1 only in some forms.
Forms ==
    {[node_xyz |-> f] : f \in [{0} -> Points] \cup [{0, 1} -> Points]}

Bases == {P3(0, 0, 0), P3(1, 0, 1)}
Normals == {P3(0, 0, 1), P3(1, 1, 0), P3(1, 2, 2), P3(0, 0, 0), <<R(1), R(0)>>}
Planes == {<<b, n>> : b \in Bases, n \in Normals} \cup {NonePlane}
GoalKeys == {0, 1, NoneKey}

\* No call of the objective function yet.
NoCall == [called |-> FALSE, x |-> 0, gradIn |-> <<>>, verbose |-> FALSE,
           fx |-> 0, gradOut |-> <<>>, calls |-> <<>>, out |-> <<>>]

NoReturn == [op |-> "none", status |-> "none", value |-> R(0), point |-> <<>>]
Call(op, r) == [op |-> op, status |-> r.status, value |-> r.value, point |-> r.point]

\* ------------------------------------------------------ actions (goal)
InitGoal ==
    /\ goal = <<>>
    /\ registered = FALSE
    /\ data \in Forms
    /\ ret = NoReturn
    /\ diagram = [d \in {"A", "B"} |-> <<>>]
    /\ heap = <<>>
    /\ writes = 0
    /\ writer = "A"
    /\ overridden = {}
    /\ shown = <<>>
    /\ x_func = [x \in 0 .. MaxX |-> 0]
    /\ grad_func = [x \in 0 .. MaxX |-> 1]
    /\ last = NoCall
    /\ history = {}

\* goal = PlaneGoal(node, plane)
NewPlaneGoal ==
    /\ goal = <<>>
    /\ \E node \in GoalKeys, plane \in Planes :
        LET o == PlaneGoal__init__(node, plane)
        IN  /\ goal' = IF o.ret.status = "ok" THEN <<o.self>> ELSE <<>>
            /\ ret' = Call("__init__", o.ret)
    /\ UNCHANGED <<registered, data>>
    /\ UNCHANGED <<objVars, diagVars>>

\* optimizer.add_goal(goal): the optimizer was built without a form.
add_goal ==
    /\ goal # <<>>
    /\ ~registered
    /\ registered' = TRUE
    /\ ret' = NoReturn
    /\ UNCHANGED <<goal, data>>
    /\ UNCHANGED <<objVars, diagVars>>

\* The solver produces the next form: one coordinate of one node changes, or
\* the form gains or loses node 1.
NewForm ==
    /\ \/ \E k \in DOMAIN data.node_xyz, i \in 1 .. 3, c \in Coords :
            /\ data.node_xyz[k][i] # R(c)
            /\ data' = [data EXCEPT !.node_xyz[k][i] = R(c)]
       \/ \E p \in Points :
            /\ 1 \notin DOMAIN data.node_xyz
            /\ data' = [data EXCEPT !.node_xyz = [k \in {0, 1} |-> IF k = 0 THEN @[0] ELSE p]]
       \/ /\ 1 \in DOMAIN data.node_xyz
          /\ data' = [data EXCEPT !.node_xyz = [k \in {0} |-> @[k]]]
    /\ ret' = NoReturn
    /\ UNCHANGED <<goal, registered>>
    /\ UNCHANGED <<objVars, diagVars>>

\* goal.error(data)
CallError ==
    /\ goal # <<>>
    /\ LET o == PlaneGoal_error(goal[1], data)
       IN  /\ ret' = Call("error", o.ret)
           /\ goal' = <<o.self>>
           /\ data' = o.data
    /\ UNCHANGED registered
    /\ UNCHANGED <<objVars, diagVars>>

\* goal.reference(data)
CallReference ==
    /\ goal # <<>>
    /\ LET o == PlaneGoal_reference(goal[1], data)
       IN  /\ ret' = Call("reference", o.ret)
           /\ goal' = <<o.self>>
           /\ data' = o.data
    /\ UNCHANGED registered
    /\ UNCHANGED <<objVars, diagVars>>

\* goal.target(point), for a point of the form or the plane's base.
CallTarget ==
    /\ goal # <<>>
    /\ \E point \in {data.node_xyz[k] : k \in DOMAIN data.node_xyz} \cup Bases :
        LET o == PlaneGoal_target(goal[1], point, data)
        IN  /\ ret' = Call("target", o.ret)
            /\ goal' = <<o.self>>
            /\ data' = o.data
    /\ UNCHANGED registered
    /\ UNCHANGED <<objVars, diagVars>>

NextGoal ==
    \/ NewPlaneGoal
    \/ add_goal
    \/ NewForm
    \/ CallError
    \/ CallReference
    \/ CallTarget

\* ====================================================== objective function
\* One line of standard output.
Line(text, value) == [text |-> text, value |-> value]
\* One invocation of a callable: its name, the x and the gradient buffer it
\* was handed (x_func gets no buffer), and the float it returned.
Invocation(fn, x, grad, result) == [fn |-> fn, x |-> x, grad |-> grad, result |-> result]

\* grad_func(x, grad) writes the gradient at x into the caller's buffer, in
\* place, and returns nothing.
GradWritten(gf, x, grad) == [i \in 1 .. Len(grad) |-> gf[x]]

\* Mutant: the gradient branch is taken whatever the buffer's size.
objective_function_numpy_GradAlways(x, grad, xf, gf, verbose) ==
    LET fx == xf[x]
    IN  [fx |-> fx,
         grad |-> GradWritten(gf, x, grad),
         calls |-> <<Invocation("grad_func", x, grad, 0), Invocation("x_func", x, <<>>, fx)>>,
         out |-> <<Line("*********************************", 0),
                   Line("In objective function", 0),
                   Line("====== Computing Objective ======", 0)>>
                 \o (IF verbose THEN <<Line("Error: {}", fx)>> ELSE <<>>)]

\* Mutant: when a gradient is asked for, one evaluation serves both: only
\* grad_func is invoked, and the value is the one it came by.
objective_function_numpy_Shared(x, grad, xf, gf, verbose) ==
    LET g == Len(grad) > 0
        fx == xf[x]
    IN  [fx |-> fx,
         grad |-> IF g THEN GradWritten(gf, x, grad) ELSE grad,
         calls |-> IF g THEN <<Invocation("grad_func", x, grad, fx)>>
                   ELSE <<Invocation("x_func", x, <<>>, fx)>>,
         out |-> <<Line("*********************************", 0),
                   Line("In objective function", 0),
                   Line("====== Computing Objective ======", 0)>>
                 \o (IF verbose THEN <<Line("Error: {}", fx)>> ELSE <<>>)]

\* Mutant: when a gradient was asked for, its entry is added to the value
\* returned.
objective_function_numpy_GradCoupled(x, grad, xf, gf, verbose) ==
    LET g == Len(grad) > 0
        fx == IF g THEN xf[x] + gf[x] ELSE xf[x]
    IN  [fx |-> fx,
         grad |-> IF g THEN GradWritten(gf, x, grad) ELSE grad,
         calls |-> (IF g THEN <<Invocation("grad_func", x, grad, 0)>> ELSE <<>>)
                   \o <<Invocation("x_func", x, <<>>, xf[x])>>,
         out |-> <<Line("*********************************", 0),
                   Line("In objective function", 0),
                   Line("====== Computing Objective ======", 0)>>
                 \o (IF verbose THEN <<Line("Error: {}", fx)>> ELSE <<>>)]

\* objective_function_numpy(x, grad, x_func, grad_func, verbose): what it
\* returns (fx), the caller's gradient buffer as it leaves it, the callables
\* it invoked, in order, and what it printed.
objective_function_numpy(x, grad, xf, gf, verbose) ==
    LET g == Len(grad) > 0
        fx == xf[x]
    IN  [fx |-> fx,
         grad |-> IF g THEN GradWritten(gf, x, grad) ELSE grad,
         calls |-> (IF g THEN <<Invocation("grad_func", x, grad, 0)>> ELSE <<>>)
                   \o <<Invocation("x_func", x, <<>>, fx)>>,
         out |-> <<Line("*********************************", 0),
                   Line("In objective function", 0),
                   Line("====== Computing Objective ======", 0)>>
                 \o (IF verbose THEN <<Line("Error: {}", fx)>> ELSE <<>>)]

\* -------------------------------------------------- inputs (objective)
X == 0 .. MaxX
Vals == 0 .. MaxVal
\* A gradient buffer of size 0 (a derivative-free algorithm) or 1, holding
\* whatever the caller left in it.
Buffers == {<<>>} \cup {<<v>> : v \in Vals}
XFuncs == [X -> Vals]
GradFuncs == {[x \in X |-> c * x + 1] : c \in 0 .. 1}

\* ------------------------------------------------- actions (objective)
InitObj ==
    /\ x_func \in XFuncs
    /\ grad_func \in GradFuncs
    /\ last = NoCall
    /\ history = {}
    /\ diagram = [d \in {"A", "B"} |-> <<>>]
    /\ heap = <<>>
    /\ writes = 0
    /\ writer = "A"
    /\ overridden = {}
    /\ shown = <<>>
    /\ goal = <<>>
    /\ registered = FALSE
    /\ data = [node_xyz |-> [k \in {0} |-> ZeroVec]]
    /\ ret = NoReturn

\* The optimizer calls objective_function_numpy(x, grad, x_func, grad_func, verbose).
ObjectiveCall ==
    /\ \E x \in X, grad \in Buffers, verbose \in BOOLEAN :
        LET o == objective_function_numpy(x, grad, x_func, grad_func, verbose)
        IN  /\ last' = [called |-> TRUE, x |-> x, gradIn |-> grad, verbose |-> verbose,
                        fx |-> o.fx, gradOut |-> o.grad, calls |-> o.calls, out |-> o.out]
            /\ history' = history \cup {<<x, o.fx>>}
    /\ UNCHANGED <<x_func, grad_func>>
    /\ UNCHANGED <<goalVars, diagVars>>

NextObj == ObjectiveCall

\* ================================================================ diagram
\* Python's None as an attribute value.
None == "None"
\* A dict is a function with a finite domain; {} is the empty one.
EmptyDict == <<>>
\* dict.update(other): other's entries win.
Updated(dict, other) == other @@ dict

\* Mutant: the dict is one object shared by every instance (a class-level or
\* default-argument dict), made by the first constructor call only.
SharedDict(h) ==
    IF Len(h) = 0
    THEN [addr |-> 1, heap |-> Append(h, EmptyDict)]
    ELSE [addr |-> 1, heap |-> h]

\* The literal {} of `self.attributes["gkey_node"] = {}`: a new dict object.
NewDict(h) == [addr |-> Len(h) + 1, heap |-> Append(h, EmptyDict)]

\* Mutant: the default of qz is a unit load.
DefaultNodeAttributes_UnitLoad ==
    [n \in {"x", "y", "z", "qx", "qy", "qz", "rx", "ry", "rz", "_k", "type"} |->
        IF n \in {"_k", "type"} THEN None ELSE IF n = "qz" THEN 1 ELSE 0]

\* The dict handed to update_default_node_attributes.
DefaultNodeAttributes ==
    [n \in {"x", "y", "z", "qx", "qy", "qz", "rx", "ry", "rz", "_k", "type"} |->
        IF n \in {"_k", "type"} THEN None ELSE 0]

\* The dict handed to update_default_edge_attributes.
DefaultEdgeAttributes ==
    [n \in {"type", "length", "force"} |-> IF n = "type" THEN None ELSE 0]

\* Diagram(): the Network base starts with no nodes, no edges and empty
\* default schemas, which the two update_default_* calls fill; then a new
\* gkey_node dict and the tolerance "3f" go into self.attributes.
Diagram__init__(h) ==
    LET d == NewDict(h)
    IN  [self |-> [order |-> <<>>,
                   node |-> EmptyDict,
                   edge |-> EmptyDict,
                   default_node_attributes |-> Updated(EmptyDict, DefaultNodeAttributes),
                   default_edge_attributes |-> Updated(EmptyDict, DefaultEdgeAttributes),
                   attributes |-> [gkey_node |-> d.addr, tol |-> "3f"]],
         heap |-> d.heap]

\* Network.node_attribute(key, name): the node's own value, else the
\* default of the schema, else None.
node_attribute(D, key, name) ==
    IF name \in DOMAIN D.node[key] THEN D.node[key][name]
    ELSE IF name \in DOMAIN D.default_node_attributes THEN D.default_node_attributes[name]
    ELSE None

\* Network.node_attributes(key, names): the values, in the order of names.
node_attributes(D, key, names) ==
    [i \in 1 .. Len(names) |-> node_attribute(D, key, names[i])]

\* Network.edge_attribute(key, name).
edge_attribute(D, key, name) ==
    IF name \in DOMAIN D.edge[key] THEN D.edge[key][name]
    ELSE IF name \in DOMAIN D.default_edge_attributes THEN D.default_edge_attributes[name]
    ELSE None

\* Diagram.node_load(node).
node_load(D, node) == node_attributes(D, node, <<"qx", "qy", "qz">>)
\* Diagram.reaction_force(node).
reaction_force(D, node) == node_attributes(D, node, <<"rx", "ry", "rz">>)
\* Diagram.edge_force(edge).
edge_force(D, edge) == edge_attribute(D, edge, "force")
\* Diagram.edge_length_2(edge).
edge_length_2(D, edge) == edge_attribute(D, edge, "length")

\* The default of min_force, 1e-6: one unit of load.
DefaultMinForce == 1

\* length_vector(v) > m, with length_vector(v) = sqrt(x*x + y*y + z*z): a
\* length is never negative, and sqrt is monotone.
length_vector_exceeds(v, m) ==
    m < 0 \/ v[1] * v[1] + v[2] * v[2] + v[3] * v[3] > m * m

\* Mutant: >= for >.
is_node_loaded_OrEqual(D, node, min_force) ==
    \/ length_vector_exceeds(node_load(D, node), min_force)
    \/ LET v == node_load(D, node)
       IN  v[1] * v[1] + v[2] * v[2] + v[3] * v[3] = min_force * min_force

\* Diagram.is_node_loaded(node, min_force).
is_node_loaded(D, node, min_force) ==
    length_vector_exceeds(node_load(D, node), min_force)

\* Diagram.loaded_nodes(min_force): the generator's yields, in the order of
\* self.nodes().
RECURSIVE LoadedFrom(_, _, _, _)
LoadedFrom(D, nodes, i, min_force) ==
    IF i > Len(nodes) THEN <<>>
    ELSE (IF is_node_loaded(D, nodes[i], min_force) THEN <<nodes[i]>> ELSE <<>>)
         \o LoadedFrom(D, nodes, i + 1, min_force)
loaded_nodes(D, min_force) == LoadedFrom(D, D.order, 1, min_force)

\* Diagram.number_of_loaded_nodes().
number_of_loaded_nodes(D) == Len(loaded_nodes(D, DefaultMinForce))

\* Diagram.is_node_support(node).
is_node_support(D, node) == node_attribute(D, node, "type") = "support"

\* Network.nodes_where({name: value}): the nodes, in the order of
\* self.nodes(), whose attribute reads as value.
RECURSIVE WhereFrom(_, _, _, _, _)
WhereFrom(D, nodes, i, name, value) ==
    IF i > Len(nodes) THEN <<>>
    ELSE (IF node_attribute(D, nodes[i], name) = value THEN <<nodes[i]>> ELSE <<>>)
         \o WhereFrom(D, nodes, i + 1, name, value)
nodes_where(D, name, value) == WhereFrom(D, D.order, 1, name, value)

\* Mutant: every node that was given a type is taken for a support.
support_nodes_AnyType(D) ==
    LET Typed(i) == node_attribute(D, D.order[i], "type") # None
        F[i \in 0 .. Len(D.order)] ==
            IF i = 0 THEN <<>>
            ELSE F[i - 1] \o (IF Typed(i) THEN <<D.order[i]>> ELSE <<>>)
    IN  F[Len(D.order)]

\* Diagram.support_nodes().
support_nodes(D) == nodes_where(D, "type", "support")

\* Diagram.number_of_support_nodes().
number_of_support_nodes(D) == Len(support_nodes(D))

\* The tol property and the gkey_node property.
tol(D) == D.attributes.tol
gkey_node(D, h) == h[D.attributes.gkey_node]

\* ---------------------------------------------------- inputs (diagram)
Instances == {"A", "B"}
NodeKeys == {0, 1}
\* Loads, in units of 1e-6: of magnitude 1, sqrt(2) and 2.
Loads == {<<1, 0, 0>>, <<1, 1, 0>>, <<0, 0 - 2, 0>>}
MinForces == {0, DefaultMinForce, 2}
NoQuery == [query |-> "none", inst |-> "A", min_force |-> 0, yielded |-> <<>>, number |-> 0]

\* Everything that can be read from an instance.
View(d) ==
    [order |-> diagram[d].order,
     node |-> diagram[d].node,
     edge |-> diagram[d].edge,
     default_node_attributes |-> diagram[d].default_node_attributes,
     default_edge_attributes |-> diagram[d].default_edge_attributes,
     tol |-> tol(diagram[d]),
     gkey_node |-> gkey_node(diagram[d], heap)]

\* --------------------------------------------------- actions (diagram)
\* A = Diagram(); B = Diagram().
InitDiagram ==
    /\ LET a == Diagram__init__(<<>>)
           b == Diagram__init__(a.heap)
       IN  /\ diagram = [d \in Instances |-> IF d = "A" THEN a.self ELSE b.self]
           /\ heap = b.heap
    /\ writes = 0
    /\ writer = "A"
    /\ overridden = {}
    /\ shown = NoQuery
    /\ x_func = [x \in 0 .. MaxX |-> 0]
    /\ grad_func = [x \in 0 .. MaxX |-> 1]
    /\ last = NoCall
    /\ history = {}
    /\ goal = <<>>
    /\ registered = FALSE
    /\ data = [node_xyz |-> [k \in {0} |-> ZeroVec]]
    /\ ret = NoReturn

\* What every write does besides.
Written(d) ==
    /\ writes < MaxWrites
    /\ writes' = writes + 1
    /\ writer' = d
    /\ shown' = NoQuery
    /\ UNCHANGED <<goalVars, objVars>>

\* d.add_node(key), no attributes given.
add_node ==
    \E d \in Instances, key \in NodeKeys :
        /\ key \notin DOMAIN diagram[d].node
        /\ diagram' = [diagram EXCEPT ![d].node = (key :> EmptyDict) @@ @,
                                      ![d].order = Append(@, key)]
        /\ UNCHANGED <<heap, overridden>>
        /\ Written(d)

\* d.add_load(NodeLoad(node, load)): qx, qy, qz of the node are set.
add_load ==
    \E d \in Instances, q \in Loads :
        \E key \in DOMAIN diagram[d].node :
            /\ diagram' = [diagram EXCEPT ![d].node[key] =
                              Updated(@, [n \in {"qx", "qy", "qz"} |->
                                          IF n = "qx" THEN q[1] ELSE IF n = "qy" THEN q[2] ELSE q[3]])]
            /\ UNCHANGED <<heap, overridden>>
            /\ Written(d)

\* d.node_attribute(key, "type", value): a support or a root is assigned, or
\* the type is cleared.
set_node_type ==
    \E d \in Instances, t \in {"support", "root", None} :
        \E key \in DOMAIN diagram[d].node :
            /\ node_attribute(diagram[d], key, "type") # t
            /\ diagram' = [diagram EXCEPT ![d].node[key] = Updated(@, [n \in {"type"} |-> t])]
            /\ UNCHANGED <<heap, overridden>>
            /\ Written(d)

\* d.add_edge(0, 1), no attributes given.
add_edge ==
    \E d \in Instances :
        /\ {0, 1} \subseteq DOMAIN diagram[d].node
        /\ <<0, 1>> \notin DOMAIN diagram[d].edge
        /\ diagram' = [diagram EXCEPT ![d].edge = (<<0, 1>> :> EmptyDict) @@ @]
        /\ UNCHANGED <<heap, overridden>>
        /\ Written(d)

\* d.edges_attribute(name="force", value=1.0, keys=keys).
set_edge_force ==
    \E d \in Instances :
        \E e \in DOMAIN diagram[d].edge :
            /\ edge_attribute(diagram[d], e, "force") # 1
            /\ diagram' = [diagram EXCEPT ![d].edge[e] = Updated(@, [n \in {"force"} |-> 1])]
            /\ UNCHANGED <<heap, overridden>>
            /\ Written(d)

\* d.tol = "6f": the setter of the tol property.
set_tol ==
    \E d \in Instances :
        /\ tol(diagram[d]) # "6f"
        /\ diagram' = [diagram EXCEPT ![d].attributes.tol = "6f"]
        /\ UNCHANGED <<heap, overridden>>
        /\ Written(d)

\* d.gkey_node[gkey] = key: the dict the property returns is written.
set_gkey_node ==
    \E d \in Instances :
        \E key \in DOMAIN diagram[d].node :
            /\ heap' = [heap EXCEPT ![diagram[d].attributes.gkey_node] =
                           Updated(@, [g \in {"0.000,0.000,0.000"} |-> key])]
            /\ heap' # heap
            /\ UNCHANGED <<diagram, overridden>>
            /\ Written(d)

\* d.update_default_node_attributes({"qz": 2.0}) and
\* d.update_default_edge_attributes({"w": 1.0}): a default is overridden, a
\* new name joins the schema.
update_defaults ==
    \E d \in Instances :
        /\ \/ /\ diagram[d].default_node_attributes["qz"] # 2
              /\ diagram' = [diagram EXCEPT ![d].default_node_attributes =
                                Updated(@, [n \in {"qz"} |-> 2])]
              /\ overridden' = overridden \cup {d}
           \/ /\ "w" \notin DOMAIN diagram[d].default_edge_attributes
              /\ diagram' = [diagram EXCEPT ![d].default_edge_attributes =
                                Updated(@, [n \in {"w"} |-> 1])]
              /\ UNCHANGED overridden
        /\ UNCHANGED <<heap>>
        /\ Written(d)

\* list(d.loaded_nodes(min_force)) and d.number_of_loaded_nodes().
call_loaded_nodes ==
    \E d \in Instances, m \in MinForces :
        /\ shown' = [query |-> "loaded_nodes", inst |-> d, min_force |-> m,
                     yielded |-> loaded_nodes(diagram[d], m),
                     number |-> number_of_loaded_nodes(diagram[d])]
        /\ shown' # shown
        /\ UNCHANGED <<diagram, heap, writes, writer, overridden>>
        /\ UNCHANGED <<goalVars, objVars>>

\* list(d.support_nodes()) and d.number_of_support_nodes().
call_support_nodes ==
    \E d \in Instances :
        /\ shown' = [query |-> "support_nodes", inst |-> d, min_force |-> 0,
                     yielded |-> support_nodes(diagram[d]),
                     number |-> number_of_support_nodes(diagram[d])]
        /\ shown' # shown
        /\ UNCHANGED <<diagram, heap, writes, writer, overridden>>
        /\ UNCHANGED <<goalVars, objVars>>

NextDiagram ==
    \/ add_node
    \/ add_load
    \/ set_node_type
    \/ add_edge
    \/ set_edge_force
    \/ set_tol
    \/ set_gkey_node
    \/ update_defaults
    \/ call_loaded_nodes
    \/ call_support_nodes

\* ======================================================= specifications
SpecGoal == InitGoal /\ [][NextGoal]_vars
SpecObjective == InitObj /\ [][NextObj]_vars
SpecDiagram == InitDiagram /\ [][NextDiagram]_vars

\* ------------------------------------------------- properties (goal)
\* The goal's node position in the current form, and its plane.
GoalPoint == data.node_xyz[goal[1]._key]
GoalBase == goal[1]._target[1]
GoalNormal == goal[1]._target[2]
ErrorReturned == goal # <<>> /\ ret.op = "error" /\ ret.status = "ok"

\* t is the orthogonal projection of p onto the plane (base, normal): t lies
\* on the plane and p - t is parallel to the normal.
IsOrthogonalProjection(t, p, base, normal) ==
    /\ QIsZero(Dot3(normal, Sub3(t, base)))
    /\ Cross3(Sub3(p, t), normal) = ZeroVec

\* C1: whenever error(data) returns, reference(data) is the node's xyz in
\* the form, target(reference(data)) is the orthogonal projection of that
\* point onto the goal's plane, and the value returned is the squared
\* distance between the two, which is never negative.
C1_ErrorIsSquaredDistanceToProjection ==
    ErrorReturned =>
        LET a == PlaneGoal_reference(goal[1], data).ret
            b == PlaneGoal_target(goal[1], GoalPoint, data).ret
            d == Sub3(GoalPoint, b.point)
        IN  /\ a.status = "ok" /\ a.point = GoalPoint
            /\ b.status = "ok"
            /\ IsOrthogonalProjection(b.point, GoalPoint, GoalBase, GoalNormal)
            /\ ret.value = QAdd(QAdd(QMul(d[1], d[1]), QMul(d[2], d[2])), QMul(d[3], d[3]))
            /\ ret.value[1] >= 0 /\ ret.value[2] > 0

\* C1 witness: error() returned 1/2 (node at (1,0,0), plane through the
\* origin with normal (1,1,0)): a projection that is not a grid point.
C1_Witness ==
    /\ ErrorReturned
    /\ ret.value = <<1, 2>>
    /\ GoalNormal = P3(1, 1, 0)

\* The node's position lies on the goal's plane.
OnPlane == QIsZero(Dot3(GoalNormal, Sub3(GoalPoint, GoalBase)))

\* C2: whenever error(data) returns, it is 0 if the node lies on the target
\* plane (in particular if target(reference(data)) = reference(data)), and
\* strictly positive if the node is off the plane.
C2_ZeroExactlyOnPlane ==
    ErrorReturned =>
        /\ OnPlane => ret.value = R(0)
        /\ PlaneGoal_target(goal[1], GoalPoint, data).ret.point = GoalPoint => ret.value = R(0)
        /\ ~OnPlane => QPos(ret.value)

\* C2 witness: error() returned 0 for a node that is on the plane but is not
\* the plane's base point.
C2_Witness ==
    /\ ErrorReturned
    /\ OnPlane
    /\ GoalPoint # GoalBase
    /\ ret.value = R(0)

\* The exception, if any, that handing the goal's plane to
\* closest_point_on_plane ends in.
PlaneStatus ==
    LET plane == goal[1]._target
    IN  IF plane = NonePlane THEN "TypeError"
        ELSE IF Len(plane[2]) < 3 THEN "IndexError"
        ELSE IF plane[2] = ZeroVec THEN "ZeroDivisionError"
        ELSE "ok"
KeyInForm == goal[1]._key \in DOMAIN data.node_xyz

\* C3 as claimed: once PlaneGoal(node, plane) has run, either it raised a
\* GoalDefinitionError or the goal it built references a node of the form
\* and holds a well-formed plane.
C3_RejectedEagerly ==
    ret.op = "__init__" =>
        \/ ret.status = "GoalDefinitionError"
        \/ goal # <<>> /\ KeyInForm /\ PlaneStatus = "ok"

\* C3 as amended: PlaneGoal(node, plane) accepts every node key and plane,
\* None included; a node key that is not in the form surfaces as the
\* KeyError of reference()/error() when the goal is evaluated on the form,
\* and a missing or malformed plane as the exception closest_point_on_plane
\* raises when target()/error() is evaluated.
C3_CheckedOnlyWhenEvaluated ==
    /\ ret.op = "__init__" => ret.status = "ok" /\ goal # <<>>
    /\ (ret.op \in {"error", "reference"} /\ ~KeyInForm) => ret.status = "KeyError"
    /\ (ret.op = "reference" /\ KeyInForm) => ret.status = "ok"
    /\ (ret.op = "error" /\ KeyInForm) => ret.status = PlaneStatus
    /\ ret.op = "target" => ret.status = PlaneStatus

\* C3 witness: a goal that was created and registered without complaint
\* raises KeyError when error() is evaluated.
C3_Witness ==
    /\ registered
    /\ ret.op = "error"
    /\ ret.status = "KeyError"

\* C9: a call of error(), reference() or target() changes neither the
\* goal's node key and plane nor the form data it reads.
C9_CallsLeaveGoalAndDataUnchanged ==
    [][ret'.op \in {"error", "reference", "target"} => goal' = goal /\ data' = data]_vars

\* C9 witness: error() returned a positive value, target() having projected
\* the node to another point, and the goal and the form are there to compare.
C9_Witness ==
    /\ ErrorReturned
    /\ QPos(ret.value)
    /\ registered

\* ------------------------------------------- properties (objective)
GradientAsked == last.called /\ Len(last.gradIn) > 0

\* C4 as claimed: when a gradient is required, one evaluation at x serves
\* both the gradient and the value returned: the call invokes a single
\* callable, not grad_func and then x_func.
C4_OneSharedEvaluation ==
    GradientAsked => Len(last.calls) = 1

\* C4 as amended: when a gradient is required, the gradient and the value
\* are evaluated at the same x, by two separate invocations: grad_func(x,
\* grad) fills the buffer with the gradient at x, then x_func(x) evaluates
\* the value anew, getting nothing but x.
C4_SameXSeparateEvaluations ==
    GradientAsked =>
        /\ {c.fn : c \in {last.calls[i] : i \in DOMAIN last.calls}} = {"grad_func", "x_func"}
        /\ \A i \in DOMAIN last.calls : last.calls[i].x = last.x
        /\ Len(last.calls) = 2
        /\ \A i \in DOMAIN last.gradOut : last.gradOut[i] = grad_func[last.x]
        /\ last.fx = x_func[last.x]

\* C4 witness: a call with a gradient buffer whose stale entry differs from
\* the gradient at x, so that the buffer shows grad_func's write.
C4_Witness ==
    /\ GradientAsked
    /\ last.gradIn # last.gradOut
    /\ last.fx > 0

\* C5: every value objective_function_numpy has returned for x is x_func(x),
\* whatever verbose was, whether or not a gradient was asked for, and
\* whatever calls came before.
C5_ValueDependsOnXOnly ==
    /\ last.called => last.fx = x_func[last.x]
    /\ \A h \in history : h[2] = x_func[h[1]]

\* C5 witness: several points were evaluated, the last call a verbose one
\* with a gradient.
C5_Witness ==
    /\ Cardinality(history) >= 2
    /\ GradientAsked
    /\ last.verbose

\* C10: a call invokes x_func once, with x, and returns its result; it
\* invokes grad_func, once, with x and the caller's buffer and before
\* x_func, exactly when grad.size > 0; with an empty buffer grad_func is
\* not invoked and the buffer is as it was.
C10_InvocationOrder ==
    last.called =>
        /\ last.calls =
             (IF Len(last.gradIn) > 0
              THEN <<Invocation("grad_func", last.x, last.gradIn, 0)>>
              ELSE <<>>)
             \o <<Invocation("x_func", last.x, <<>>, last.fx)>>
        /\ Len(last.gradIn) = 0 => last.gradOut = last.gradIn

\* C10 witness: a call with an empty gradient buffer.
C10_Witness ==
    /\ last.called
    /\ Len(last.gradIn) = 0
    /\ last.fx > 0

\* --------------------------------------------- properties (diagram)
\* The squared magnitude of the load read at a node.
LoadSquared(D, k) ==
    node_attribute(D, k, "qx") * node_attribute(D, k, "qx")
    + node_attribute(D, k, "qy") * node_attribute(D, k, "qy")
    + node_attribute(D, k, "qz") * node_attribute(D, k, "qz")
Yielded == {shown.yielded[i] : i \in DOMAIN shown.yielded}

C8_WritesAreLocal ==
    [][\A d \in Instances : (writes' # writes /\ writer' # d) => View(d)' = View(d)]_vars

\* C8 witness: A was written last and its gkey_node, tol and schema differ
\* from B's, which are as constructed.
C8_Witness ==
    /\ writer = "A"
    /\ gkey_node(diagram["A"], heap) # EmptyDict
    /\ tol(diagram["A"]) # tol(diagram["B"])
    /\ "A" \in overridden
    /\ diagram["A"].node # EmptyDict
    /\ View("B") = [order |-> <<>>, node |-> EmptyDict, edge |-> EmptyDict,
                    default_node_attributes |-> DefaultNodeAttributes,
                    default_edge_attributes |-> DefaultEdgeAttributes,
                    tol |-> "3f", gkey_node |-> EmptyDict]

\* C11: after any additions of nodes and any setting or clearing of node
\* types, support_nodes() yields, each once, exactly the nodes for which
\* is_node_support is true, which are the nodes whose type is "support",
\* and number_of_support_nodes() is the size of that set.
C11_SupportNodesAreTheSupports ==
    shown.query = "support_nodes" =>
        LET D == diagram[shown.inst]
            Supports == {k \in DOMAIN D.node : is_node_support(D, k)}
        IN  /\ Yielded = Supports
            /\ Supports = {k \in DOMAIN D.node :
                               "type" \in DOMAIN D.node[k] /\ D.node[k]["type"] = "support"}
            /\ Len(shown.yielded) = Cardinality(Supports)
            /\ shown.number = Cardinality(Supports)

\* C11 witness: of two nodes, one is a support and is yielded; the other
\* was given another type and is not.
C11_Witness ==
    /\ shown.query = "support_nodes"
    /\ shown.number = 1
    /\ Len(shown.yielded) = 1
    /\ \E k \in DOMAIN diagram[shown.inst].node :
          node_attribute(diagram[shown.inst], k, "type") = "root"
====
